---- MODULE Spec2Model ----
(***************************************************************************)
(* Model of MarketHub (services/api/app/deribit_hub.py): one upstream      *)
(* websocket to the feed, fanned out to downstream client sessions.        *)
(*                                                                         *)
(* Granularity: asyncio runs a task without interruption between two       *)
(* suspension points, so each action is the code between two awaits that   *)
(* can suspend.  A call of send()/send_text() takes effect (or raises) at  *)
(* the call; the task may be suspended after it.  Acquiring a free         *)
(* asyncio.Lock with no waiters does not suspend.                          *)
(*                                                                         *)
(* What a step sends is kept for one step: up_out holds the upstream       *)
(* requests of the last step and down_out its downstream frame, so that a  *)
(* property of "the requests this operation issues" is a property of one   *)
(* step.  upsubs is the feed's side of the current upstream connection.    *)
(***************************************************************************)
EXTENDS Naturals, Integers, Sequences, FiniteSets, TLC

\* ------------------------------------------------------------------ bounds
\* moves of the environment: client requests, inbound upstream frames,
\* failures of the upstream transport and the shutdown, all together
MaxEvents == 3

\* ------------------------------------------------------- program constants
HeartbeatInterval == 30

\* ---------------------------------------------------------------- strings
\* A string is a sequence of one-character strings.  Chars lists the
\* characters of the model's alphabet in code-point order, so the index of a
\* character orders it as Python orders it.
Chars == <<
  "\n", " ", "!", "-", ".", "0", "1", "2", "3", "4", "5", "6", "7",
  "8", "9", "A", "B", "C", "D", "E", "F", "G", "H", "I", "J", "K",
  "L", "M", "N", "O", "P", "Q", "R", "S", "T", "U", "V", "W", "X",
  "Y", "Z", "_", "a", "b", "c", "d", "e", "f", "g", "h", "i", "j",
  "k", "l", "m", "n", "o", "p", "q", "r", "s", "t", "u", "v", "w",
  "x", "y", "z" >>

Ord(ch) == CHOOSE i \in 1..Len(Chars) : Chars[i] = ch

RECURSIVE StrLess(_, _)
StrLess(a, b) ==
  IF a = <<>> THEN b # <<>>
  ELSE IF b = <<>> THEN FALSE
  ELSE IF Head(a) = Head(b) THEN StrLess(Tail(a), Tail(b))
  ELSE Ord(Head(a)) < Ord(Head(b))

\* sorted(set of str)
RECURSIVE Sorted(_)
Sorted(S) ==
  IF S = {} THEN <<>>
  ELSE LET m == CHOOSE x \in S : \A y \in S : x = y \/ StrLess(x, y)
       IN  <<m>> \o Sorted(S \ {m})

StartsWith(s, p) == Len(s) >= Len(p) /\ SubSeq(s, 1, Len(p)) = p

ALLOWED_PREFIXES == {
  << "t","i","c","k","e","r","." >>,
  << "i","n","c","r","e","m","e","n","t","a","l","_","t","i","c","k","e","r","." >>,
  << "b","o","o","k","." >>,
  << "t","r","a","d","e","s","." >>,
  << "c","h","a","r","t",".","t","r","a","d","e","s","." >>,
  << "q","u","o","t","e","." >>,
  << "d","e","r","i","b","i","t","_","p","r","i","c","e","_","i","n","d","e","x","." >>,
  << "d","e","r","i","b","i","t","_","p","r","i","c","e","_","r","a","n","k","i","n","g","." >>,
  << "d","e","r","i","b","i","t","_","p","r","i","c","e","_","s","t","a","t","i","s","t","i","c","s","." >>,
  << "d","e","r","i","b","i","t","_","v","o","l","a","t","i","l","i","t","y","_","i","n","d","e","x","." >>,
  << "e","s","t","i","m","a","t","e","d","_","e","x","p","i","r","a","t","i","o","n","_","p","r","i","c","e","." >>,
  << "i","n","s","t","r","u","m","e","n","t",".","s","t","a","t","e","." >>,
  << "p","l","a","t","f","o","r","m","_","s","t","a","t","e" >>,
  << "b","l","o","c","k","_","r","f","q","." >>,
  << "m","a","r","k","p","r","i","c","e",".","o","p","t","i","o","n","s","." >> }

\* [a-zA-Z0-9_.\-]
Digits == { "0", "1", "2", "3", "4", "5", "6", "7", "8", "9" }
Upper == { "A", "B", "C", "D", "E", "F", "G", "H", "I", "J", "K", "L", "M",
           "N", "O", "P", "Q", "R", "S", "T", "U", "V", "W", "X", "Y", "Z" }
Lower == { "a", "b", "c", "d", "e", "f", "g", "h", "i", "j", "k", "l", "m",
           "n", "o", "p", "q", "r", "s", "t", "u", "v", "w", "x", "y", "z" }
ChannelChars == Lower \cup Upper \cup Digits \cup { "_", ".", "-" }
ChannelChar(ch) == ch \in ChannelChars

\* CHANNEL_RE.match(s): ^[a-zA-Z0-9_.\-]+$ where $ also matches just before
\* a line break that ends the string.
ChannelReMatch(s) ==
  \/ Len(s) >= 1 /\ \A i \in 1..Len(s) : ChannelChar(s[i])
  \/ /\ Len(s) >= 2
     /\ s[Len(s)] = "\n"
     /\ \A i \in 1..(Len(s) - 1) : ChannelChar(s[i])

\* isinstance(c, str): a JSON value that is no string is the marker JsonNumber
JsonNumber == << "<number>" >>
CharSet == { Chars[k] : k \in 1..Len(Chars) }
IsStr(x) == \A i \in 1..Len(x) : x[i] \in CharSet

_validate_channel(channel) ==
  /\ channel # <<>>
  /\ ChannelReMatch(channel)
  /\ \E p \in ALLOWED_PREFIXES : StartsWith(channel, p)

\* ------------------------------------------------------------ input sets
ChX == << "t","i","c","k","e","r",".","A" >>
ChY == << "b","o","o","k",".","B" >>
ChBad == << "b","o","o","k"," ","!" >>
ChNl == << "b","o","o","k",".","B","\n" >>

Channels == { ChX, ChY, ChNl }
ClientOrder == << "a", "b" >>
Clients == { ClientOrder[i] : i \in 1..Len(ClientOrder) }

\* the `channels` member of a client request
ChannelLists == { <<ChX>>, <<ChX, ChY, ChX>>, <<ChBad, ChY>>,
                  <<ChBad, JsonNumber>>, <<>> }

\* inbound upstream frames: kind and, for a subscription, params.channel
FrameKinds == { [kind |-> "subscription", channel |-> ChX],
                [kind |-> "subscription", channel |-> ChY],
                [kind |-> "subscription", channel |-> <<>>],
                [kind |-> "test_request", channel |-> <<>>],
                [kind |-> "heartbeat", channel |-> <<>>],
                [kind |-> "other", channel |-> <<>>],
                [kind |-> "undecodable", channel |-> <<>>] }

\* ------------------------------------------------------------------ state
VARIABLES
  running,       \* self._running
  ws,            \* the connection self._ws refers to: "none", "open", "dead", "closed"
  leaked,        \* a connection self._ws referred to before is still open
  upsubs,        \* the channels the feed has subscribed on the connection self._ws
  req_id,        \* self._req_id
  subs,          \* self._subs: channel -> set of clients (a dict: only its keys)
  all_channels,  \* self._all_channels
  lock,          \* holder of self._lock, or NoClient
  waiters,       \* sessions waiting for self._lock, first come first served
  rpc,           \* position of start() and then of the _recv_loop task
  fan,           \* the fan-out of _recv_loop, in progress or last completed
  sess,          \* position of every ws_handler
  sock,          \* every downstream socket: "none", "open", "gone"
  cur,           \* the request a ws_handler is serving
  raced,         \* the registry changed while _connect was between its two sends
  up_out,        \* the send() calls on self._ws of the last step, in call order
  down_out,      \* the send_text() call of the last step
  end_out,       \* the handler that left its loop in the last step, and why
  reg_out,       \* the registry loop of the last step and what it did to its client
  frame_in,      \* the upstream frame received in the last step
  req_in,        \* the client frame received in the last step, and by whom
  nevents        \* moves of the environment so far

vars == << running, ws, leaked, upsubs, req_id, subs, all_channels,
           lock, waiters, rpc, fan, sess, sock, cur, raced,
           up_out, down_out, end_out, reg_out, frame_in, req_in, nevents >>

connVars == << ws, leaked >>
regVars == << subs, all_channels >>
sessAll == << sess, sock, cur, lock, waiters >>

NoReq == [kind |-> "none", op |-> "", channels |-> <<>>]
NoFan == [frame |-> 0, channel |-> <<>>, snap |-> {}, left |-> {},
          delivered |-> {}, failed |-> {}]
NoClient == "none"
NoMsg == [type |-> "none", op |-> "", channels |-> <<>>, frame |-> 0, error |-> ""]
NoDown == [to |-> NoClient, msg |-> NoMsg, ok |-> FALSE]
NoEnd == [who |-> NoClient, cause |-> "none"]
NoRegOut == [who |-> NoClient, op |-> "none", joined |-> {}, left |-> {}]
NoFrame == [kind |-> "none", channel |-> <<>>]
NoReqIn == [who |-> NoClient, req |-> NoReq]

Init ==
  /\ running = FALSE
  /\ ws = "none"
  /\ leaked = FALSE
  /\ upsubs = {}
  /\ req_id = 1
  /\ subs = <<>>
  /\ all_channels = {}
  /\ lock = NoClient
  /\ waiters = <<>>
  /\ rpc = "new"
  /\ fan = NoFan
  /\ sess = [c \in Clients |-> "new"]
  /\ sock = [c \in Clients |-> "none"]
  /\ cur = [c \in Clients |-> NoReq]
  /\ raced = FALSE
  /\ up_out = <<>>
  /\ down_out = NoDown
  /\ end_out = NoEnd
  /\ reg_out = NoRegOut
  /\ frame_in = NoFrame
  /\ req_in = NoReqIn
  /\ nevents = 0

\* ------------------------------------------------------- upstream requests
\* The upstream side as a value: the calls of this step, the id counter and
\* the feed's subscriptions on the connection.
Up(o, r, f) == [out |-> o, req_id |-> r, upsubs |-> f]
Up0 == Up(<<>>, req_id, upsubs)

Range(s) == { s[i] : i \in 1..Len(s) }

\* what a request that arrives does to the feed's subscriptions
FeedApply(f, method, channels) ==
  IF method = "public/subscribe" THEN f \cup Range(channels)
  ELSE IF method = "public/unsubscribe" THEN f \ Range(channels)
  ELSE f

\* variant: _next_id returns self._req_id without the increment
NextIdStuck(r) == r

\* def _next_id(self)
NextId(r) == r + 1

\* await self._ws.send(json.dumps({"id": self._next_id(), "method": m,
\* "params": ...})): the id is taken first, then the frame is sent or the
\* call raises; open tells which.
SendOn(u, open, method, channels, interval) ==
  Up(Append(u.out, [id |-> NextId(u.req_id), method |-> method,
                    channels |-> channels, interval |-> interval, ok |-> open]),
     NextId(u.req_id),
     IF open THEN FeedApply(u.upsubs, method, channels) ELSE u.upsubs)

\* variant: the channel list is sent without sorted(), here in descending order
SubscribeDeribitUnsorted(u, open, channels) ==
  IF channels = {} THEN u
  ELSE LET s == Sorted(channels)
       IN  SendOn(u, open, "public/subscribe",
                  [i \in 1..Len(s) |-> s[Len(s) + 1 - i]], 0)

\* _subscribe_deribit(channels): nothing on an empty set
SubscribeDeribit(u, open, channels) ==
  IF channels = {} THEN u
  ELSE SendOn(u, open, "public/subscribe", Sorted(channels), 0)

\* variant: the upstream unsubscribe is never sent
UnsubscribeDeribitNever(u, open, channels) == u

\* variant: without `if not channels: return`
UnsubscribeDeribitAlways(u, open, channels) ==
  SendOn(u, open, "public/unsubscribe", Sorted(channels), 0)

\* _unsubscribe_deribit(channels): nothing on an empty set
UnsubscribeDeribit(u, open, channels) ==
  IF channels = {} THEN u
  ELSE SendOn(u, open, "public/unsubscribe", Sorted(channels), 0)

\* a send() of this step raised
Raised(u) == \E i \in 1..Len(u.out) : ~u.out[i].ok

\* ---------------------------------------------------------------- registry
Get(S, ch) == IF ch \in DOMAIN S THEN S[ch] ELSE {}

\* dict with key ch set to v / with key ch popped
Put(S, ch, v) == [k \in DOMAIN S \cup {ch} |-> IF k = ch THEN v ELSE S[k]]
Pop(S, ch) == [k \in DOMAIN S \ {ch} |-> S[k]]

Reg(S, A, n) == [subs |-> S, all |-> A, changed |-> n]

\* variant: newly_added.add(c) outside the test on self._all_channels
SubscribeOneAlways(r, c, ch) ==
  Reg(Put(r.subs, ch, Get(r.subs, ch) \cup {c}), r.all \cup {ch}, r.changed \cup {ch})

\* variant: newly_added takes every channel the client was no subscriber of
SubscribeOnePerClient(r, c, ch) ==
  Reg(Put(r.subs, ch, Get(r.subs, ch) \cup {c}),
      r.all \cup {ch},
      IF c \notin Get(r.subs, ch) THEN r.changed \cup {ch} ELSE r.changed)

\* variant: self._subs[c] = {ws} in place of setdefault(c, set()).add(ws)
SubscribeOneReplace(r, c, ch) ==
  Reg(Put(r.subs, ch, {c}),
      r.all \cup {ch},
      IF ch \notin r.all THEN r.changed \cup {ch} ELSE r.changed)

\* one turn of the subscribe loop for channel ch
SubscribeOne(r, c, ch) ==
  Reg(Put(r.subs, ch, Get(r.subs, ch) \cup {c}),
      r.all \cup {ch},
      IF ch \notin r.all THEN r.changed \cup {ch} ELSE r.changed)

\* for c in valid: ... of the subscribe branch; changed is newly_added
RECURSIVE SubscribeLoop(_, _, _)
SubscribeLoop(r, c, valid) ==
  IF valid = <<>> THEN r
  ELSE SubscribeLoop(SubscribeOne(r, c, Head(valid)), c, Tail(valid))

\* variant: the entry is popped without the test `if not self._subs[c]`
UnsubscribeOneAnyway(r, c, ch) ==
  IF ch \notin DOMAIN r.subs THEN r
  ELSE IF ch \in r.all THEN Reg(Pop(r.subs, ch), r.all \ {ch}, r.changed \cup {ch})
  ELSE Reg(Pop(r.subs, ch), r.all, r.changed)

\* variant: discard(ws) without the pop of an entry that became empty
UnsubscribeOneNoPop(r, c, ch) ==
  IF ch \notin DOMAIN r.subs THEN r
  ELSE IF r.subs[ch] \ {c} # {} \/ ch \notin r.all
       THEN Reg(Put(r.subs, ch, r.subs[ch] \ {c}), r.all, r.changed)
  ELSE Reg(Put(r.subs, ch, {}), r.all \ {ch}, r.changed \cup {ch})

\* variant: the turn leaves the entry alone (no discard, no pop)
UnsubscribeOneKeep(r, c, ch) == r

\* variant: a channel without an entry is added to newly_removed
UnsubscribeOneReportsAbsent(r, c, ch) ==
  IF ch \notin DOMAIN r.subs THEN Reg(r.subs, r.all, r.changed \cup {ch})
  ELSE IF r.subs[ch] \ {c} # {} THEN Reg(Put(r.subs, ch, r.subs[ch] \ {c}), r.all, r.changed)
  ELSE IF ch \in r.all THEN Reg(Pop(r.subs, ch), r.all \ {ch}, r.changed \cup {ch})
  ELSE Reg(Pop(r.subs, ch), r.all, r.changed)

\* one turn of the unsubscribe loop for channel ch
UnsubscribeOne(r, c, ch) ==
  IF ch \notin DOMAIN r.subs THEN r
  ELSE IF r.subs[ch] \ {c} # {} THEN Reg(Put(r.subs, ch, r.subs[ch] \ {c}), r.all, r.changed)
  ELSE IF ch \in r.all THEN Reg(Pop(r.subs, ch), r.all \ {ch}, r.changed \cup {ch})
  ELSE Reg(Pop(r.subs, ch), r.all, r.changed)

\* variant: the loop is left after its first turn
UnsubscribeLoopFirst(r, c, valid) ==
  IF valid = <<>> THEN r ELSE UnsubscribeOne(r, c, Head(valid))

\* for c in valid: ... of the unsubscribe branch; changed is newly_removed
RECURSIVE UnsubscribeLoop(_, _, _)
UnsubscribeLoop(r, c, valid) ==
  IF valid = <<>> THEN r
  ELSE UnsubscribeLoop(UnsubscribeOne(r, c, Head(valid)), c, Tail(valid))

\* variant: removed.add(c) is missing
CleanupOneSilent(r, c, ch) ==
  IF c \notin r.subs[ch] THEN r
  ELSE IF r.subs[ch] \ {c} # {} THEN Reg(Put(r.subs, ch, r.subs[ch] \ {c}), r.all, r.changed)
  ELSE Reg(Pop(r.subs, ch), r.all \ {ch}, r.changed)

\* variant: clients.discard(ws) only when ws is the only client of the entry
CleanupOneSole(r, c, ch) ==
  IF r.subs[ch] # {c} THEN r
  ELSE IF ch \in r.all THEN Reg(Pop(r.subs, ch), r.all \ {ch}, r.changed \cup {ch})
  ELSE Reg(Pop(r.subs, ch), r.all, r.changed)

\* variant: the entry is popped without the test `if not clients`
CleanupOnePop(r, c, ch) ==
  IF c \notin r.subs[ch] THEN r
  ELSE IF ch \in r.all THEN Reg(Pop(r.subs, ch), r.all \ {ch}, r.changed \cup {ch})
  ELSE Reg(Pop(r.subs, ch), r.all, r.changed)

\* one turn of the cleanup loop of the finally block for entry ch
CleanupOne(r, c, ch) ==
  IF c \notin r.subs[ch] THEN r
  ELSE IF r.subs[ch] \ {c} # {} THEN Reg(Put(r.subs, ch, r.subs[ch] \ {c}), r.all, r.changed)
  ELSE IF ch \in r.all THEN Reg(Pop(r.subs, ch), r.all \ {ch}, r.changed \cup {ch})
  ELSE Reg(Pop(r.subs, ch), r.all, r.changed)

\* for c, clients in list(self._subs.items()): ...; changed is removed
RECURSIVE CleanupLoop(_, _, _)
CleanupLoop(r, c, keys) ==
  IF keys = {} THEN r
  ELSE LET ch == CHOOSE k \in keys : TRUE
       IN  CleanupLoop(CleanupOne(r, c, ch), c, keys \ {ch})

\* variant: the strings are not run through _validate_channel
ValidOfStrings(channels) == SelectSeq(channels, IsStr)

\* channels = [c for c in channels if isinstance(c, str)]
\* valid = [c for c in channels if self._validate_channel(c)]
ValidOf(channels) ==
  SelectSeq(SelectSeq(channels, IsStr), _validate_channel)

\* --------------------------------------------------------------- sessions
\* a frame sent to a downstream client
OkMsg(op, valid) == [type |-> "ok", op |-> op, channels |-> valid, frame |-> 0, error |-> ""]
ErrorMsg(e) == [type |-> "error", op |-> "", channels |-> <<>>, frame |-> 0, error |-> e]
DataMsg(n, ch) == [type |-> "data", op |-> "", channels |-> <<ch>>, frame |-> n, error |-> ""]
Down(c, m, ok) == [to |-> c, msg |-> m, ok |-> ok]
End(c, cause) == [who |-> c, cause |-> cause]

\* client frames: JSON objects with an op and channels, and frames that are
\* no JSON or no JSON object
Requests ==
  [kind : {"object"}, op : { "subscribe", "unsubscribe" }, channels : ChannelLists]
    \cup { [kind |-> "object", op |-> "subscribe", channels |-> <<ChNl>>],
           [kind |-> "object", op |-> "ping", channels |-> <<>>],
           [kind |-> "object", op |-> "ping", channels |-> <<ChX>>],
           [kind |-> "object", op |-> "", channels |-> <<ChX, ChY, ChX>>],
           [kind |-> "malformed", op |-> "", channels |-> <<>>] }

ConnOpen == ws = "open"

\* the hub serves downstream connections: startup is over, shutdown has not begun
Serving == running /\ rpc \notin { "new", "start_connect", "start_hb", "start_failed" }

\* _connect is between its two sends on a reconnect
InConnect == rpc = "re_hb"

SetUp(u) ==
  /\ up_out' = u.out
  /\ req_id' = u.req_id
  /\ upsubs' = u.upsubs

\* a step of the upstream task or of the environment leaves the sessions alone
hubOnly == << regVars, sess, cur, lock, waiters >>
\* a step of a session leaves the upstream task alone
sessOnly == << running, connVars, rpc, fan >>

\* what the registry loop op of client c did to c, S1 being the dict after it
RegLabel(c, op, S1) ==
  [who |-> c, op |-> op,
   joined |-> { ch \in DOMAIN S1 : c \in S1[ch] /\ c \notin Get(subs, ch) },
   left |-> { ch \in DOMAIN subs : c \in subs[ch] /\ c \notin Get(S1, ch) }]

\* a step of a session receives no upstream frame
NoIn == frame_in' = NoFrame
\* a step that is no receive_text receives no client frame
NoRequest == req_in' = NoReqIn
\* a step of the upstream task or of the environment sends no reply, ends no
\* handler and runs no registry loop
Quiet ==
  /\ end_out' = NoEnd
  /\ reg_out' = NoRegOut

\* The body of the finally block once the lock is held: the cleanup loop,
\* then _unsubscribe_deribit(removed), whose exception leaves the handler
\* like any other.  The handler is over: the server closes the socket.
Cleanup(c, S, A, u, q) ==
  LET r == CleanupLoop(Reg(S, A, {}), c, DOMAIN S)
  IN  /\ subs' = r.subs
      /\ all_channels' = r.all
      /\ SetUp(UnsubscribeDeribit(u, ConnOpen, r.changed))
      /\ lock' = NoClient
      /\ waiters' = q
      /\ sess' = [sess EXCEPT ![c] = "closed"]
      /\ sock' = [sock EXCEPT ![c] = "gone"]
      /\ cur' = [cur EXCEPT ![c] = NoReq]
      /\ raced' = (raced \/ (InConnect /\ r.all # all_channels))
      /\ reg_out' = RegLabel(c, "cleanup", r.subs)

\* The handler leaves its loop by an exception (cause) with the registry at
\* (S, A) after the loop of branch op and the upstream side at u, q the
\* sessions waiting for the lock.
\* It holds the lock no longer; the finally block takes it at once when it
\* is free and nobody waits for it, and queues for it otherwise.
Finally(c, S, A, u, q, cause, op) ==
  /\ end_out' = End(c, cause)
  /\ IF (lock = NoClient \/ lock = c) /\ q = <<>>
     THEN Cleanup(c, S, A, u, q)
     ELSE /\ subs' = S
          /\ all_channels' = A
          /\ SetUp(u)
          /\ lock' = IF lock = c THEN NoClient ELSE lock
          /\ waiters' = Append(q, c)
          /\ sess' = [sess EXCEPT ![c] = "cleanup_wait"]
          /\ sock' = IF cause \in { "client_send", "disconnect" }
                     THEN [sock EXCEPT ![c] = "gone"] ELSE sock
          /\ cur' = [cur EXCEPT ![c] = NoReq]
          /\ raced' = (raced \/ (InConnect /\ A # all_channels))
          /\ reg_out' = RegLabel(c, op, S)

\* variant: every op but "unsubscribe" runs the subscribe loop
BranchElseSubscribe(op, c, valid) ==
  IF op = "unsubscribe" THEN UnsubscribeLoop(Reg(subs, all_channels, {}), c, valid)
  ELSE SubscribeLoop(Reg(subs, all_channels, {}), c, valid)

\* the registry after the loop of the branch that serves op
Branch(op, c, valid) ==
  IF op = "subscribe" THEN SubscribeLoop(Reg(subs, all_channels, {}), c, valid)
  ELSE IF op = "unsubscribe" THEN UnsubscribeLoop(Reg(subs, all_channels, {}), c, valid)
  ELSE Reg(subs, all_channels, {})

\* the upstream request of the branch that serves op, changed being
\* newly_added or newly_removed
BranchUp(op, changed) ==
  IF op = "subscribe" THEN SubscribeDeribit(Up0, ConnOpen, changed)
  ELSE IF op = "unsubscribe" THEN UnsubscribeDeribit(Up0, ConnOpen, changed)
  ELSE Up0

\* variant: the reply is left to a detached task; the handler releases the
\* lock and reads its next frame at once
HandleDetached(c, req, q) ==
  LET r == Branch(req.op, c, ValidOf(req.channels))
      u == BranchUp(req.op, r.changed)
  IN  /\ subs' = r.subs
      /\ all_channels' = r.all
      /\ SetUp(u)
      /\ lock' = NoClient
      /\ waiters' = q
      /\ sess' = [sess EXCEPT ![c] = "recv"]
      /\ cur' = [cur EXCEPT ![c] = req]
      /\ raced' = (raced \/ (InConnect /\ r.all # all_channels))
      /\ end_out' = NoEnd
      /\ reg_out' = RegLabel(c, IF req.op \in { "subscribe", "unsubscribe" }
                                THEN req.op ELSE "none", r.subs)
      /\ sock' = sock

\* The body of `async with self._lock` for request req, up to the first
\* await that suspends: the registry loop and the upstream request.  An
\* upstream send that raises leaves the handler through the finally block.
Handle(c, req, q) ==
  LET r == Branch(req.op, c, ValidOf(req.channels))
      u == BranchUp(req.op, r.changed)
  IN  IF Raised(u)
      THEN Finally(c, r.subs, r.all, u, q, "upstream_send", req.op)
      ELSE /\ subs' = r.subs
           /\ all_channels' = r.all
           /\ SetUp(u)
           /\ lock' = c
           /\ waiters' = q
           /\ sess' = [sess EXCEPT ![c] = "reply"]
           /\ cur' = [cur EXCEPT ![c] = req]
           /\ raced' = (raced \/ (InConnect /\ r.all # all_channels))
           /\ end_out' = NoEnd
           /\ reg_out' = RegLabel(c, IF req.op \in { "subscribe", "unsubscribe" }
                                     THEN req.op ELSE "none", r.subs)
           /\ sock' = sock

\* variant: the ok frame lists the strings of the request, valid or not
ReplyToRequested(req) ==
  IF req.op \in { "subscribe", "unsubscribe" }
  THEN OkMsg(req.op, SelectSeq(req.channels, IsStr))
  ELSE ErrorMsg("unknown op")

\* the reply of the branch that served req
ReplyTo(req) ==
  IF req.op \in { "subscribe", "unsubscribe" }
  THEN OkMsg(req.op, ValidOf(req.channels))
  ELSE ErrorMsg("unknown op")

\* await ws.accept().  Clients are interchangeable: they connect in the
\* order of ClientOrder.
SessOpen(c) ==
  /\ Serving
  /\ sess[c] = "new"
  /\ \A i \in 1..Len(ClientOrder) :
        ClientOrder[i] = c => \A j \in 1..(i - 1) : sess[ClientOrder[j]] # "new"
  /\ sess' = [sess EXCEPT ![c] = "recv"]
  /\ sock' = [sock EXCEPT ![c] = "open"]
  /\ SetUp(Up0)
  /\ down_out' = NoDown
  /\ Quiet
  /\ NoIn
  /\ NoRequest
  /\ UNCHANGED << sessOnly, regVars, cur, lock, waiters, raced, nevents >>

\* data = await ws.receive_text() returns the client's next frame req; the
\* handler runs to its next suspension.  delivered tells whether the socket
\* still takes the error reply of a request without a valid channel.
\* Clients send no request once shutdown has begun.
SessRecv(c, req, delivered) ==
  /\ Serving
  /\ sess[c] = "recv"
  /\ sock[c] = "open"
  /\ nevents < MaxEvents
  /\ nevents' = nevents + 1
  /\ NoIn
  /\ req_in' = [who |-> c, req |-> req]
  /\ UNCHANGED sessOnly
  /\ IF req.kind = "malformed"
     THEN /\ delivered
          /\ Finally(c, subs, all_channels, Up0, waiters, "malformed", "none")
          /\ down_out' = NoDown
     ELSE IF ValidOf(req.channels) = <<>>
     THEN /\ down_out' = Down(c, ErrorMsg("no valid channels"), delivered)
          /\ IF delivered
             THEN /\ SetUp(Up0)
                  /\ Quiet
                  /\ UNCHANGED << regVars, sess, sock, cur, lock, waiters, raced >>
             ELSE Finally(c, subs, all_channels, Up0, waiters, "client_send", "none")
     ELSE IF lock = NoClient /\ waiters = <<>>
     THEN /\ delivered
          /\ Handle(c, req, waiters)
          /\ down_out' = NoDown
     ELSE /\ delivered
          /\ sess' = [sess EXCEPT ![c] = "wait"]
          /\ cur' = [cur EXCEPT ![c] = req]
          /\ waiters' = Append(waiters, c)
          /\ SetUp(Up0)
          /\ down_out' = NoDown
          /\ Quiet
          /\ UNCHANGED << regVars, sock, lock, raced >>

\* the lock is free and c is the first in line for it
SessAcquire(c) ==
  /\ lock = NoClient
  /\ waiters # <<>>
  /\ Head(waiters) = c
  /\ down_out' = NoDown
  /\ NoIn
  /\ NoRequest
  /\ UNCHANGED << sessOnly, nevents >>
  /\ IF sess[c] = "wait"
     THEN Handle(c, cur[c], Tail(waiters))
     ELSE /\ Cleanup(c, subs, all_channels, Up0, Tail(waiters))
          /\ end_out' = NoEnd

\* await ws.send_text(reply), then the lock is released and the loop reads
\* on; delivered tells whether the socket takes the frame: when the client is
\* gone the send raises
SessReply(c, delivered) ==
  /\ sess[c] = "reply"
  /\ delivered => sock[c] = "open"
  /\ down_out' = Down(c, ReplyTo(cur[c]), delivered)
  /\ NoIn
  /\ NoRequest
  /\ UNCHANGED << sessOnly, nevents >>
  /\ IF delivered
     THEN /\ sess' = [sess EXCEPT ![c] = "recv"]
          /\ cur' = [cur EXCEPT ![c] = NoReq]
          /\ lock' = NoClient
          /\ SetUp(Up0)
          /\ Quiet
          /\ UNCHANGED << regVars, sock, waiters, raced >>
     ELSE Finally(c, subs, all_channels, Up0, waiters, "client_send", "none")

\* await ws.receive_text() raises WebSocketDisconnect: the client has closed
\* or lost its connection
SessDisconnect(c) ==
  /\ sess[c] = "recv"
  /\ Finally(c, subs, all_channels, Up0, waiters, "disconnect", "none")
  /\ down_out' = NoDown
  /\ NoIn
  /\ NoRequest
  /\ UNCHANGED << sessOnly, nevents >>

\* ---------------------------------------------------------- upstream task
\* start(): self._running = True, then await self._connect()
Start ==
  /\ rpc = "new"
  /\ running' = TRUE
  /\ rpc' = "start_connect"
  /\ SetUp(Up0)
  /\ down_out' = NoDown
  /\ Quiet
  /\ NoIn
  /\ NoRequest
  /\ UNCHANGED << connVars, fan, hubOnly, sock, raced, nevents >>

\* variant: _connect without its set_heartbeat request
SetHeartbeatNone(u) == u

\* the first send of _connect, on the connection just opened:
\* public/set_heartbeat with params {"interval": 30}
SetHeartbeat(u) == SendOn(u, TRUE, "public/set_heartbeat", <<>>, HeartbeatInterval)

\* _connect, first half: websockets.connect returns a connection, which
\* becomes self._ws (the connection it referred to is not closed), and
\* public/set_heartbeat is sent on it
ConnectOk ==
  /\ rpc \in { "start_connect", "re_connect" }
  /\ leaked' = (leaked \/ ws = "open")
  /\ ws' = "open"
  /\ SetUp(SetHeartbeat(Up(<<>>, req_id, {})))
  /\ rpc' = IF rpc = "start_connect" THEN "start_hb" ELSE "re_hb"
  /\ raced' = FALSE
  /\ down_out' = NoDown
  /\ Quiet
  /\ NoIn
  /\ NoRequest
  /\ UNCHANGED << running, fan, hubOnly, sock, nevents >>

\* where an exception of _connect leaves the task: out of start(), before
\* the receive task is created, or in the except branch of _recv_loop, in
\* await asyncio.sleep(2.0)
ConnectRaised(pc) ==
  IF pc \in { "start_connect", "start_hb" } THEN "start_failed" ELSE "sleep2"

\* _connect: websockets.connect raises
ConnectFail ==
  /\ rpc \in { "start_connect", "re_connect" }
  /\ nevents < MaxEvents
  /\ nevents' = nevents + 1
  /\ rpc' = ConnectRaised(rpc)
  /\ SetUp(Up0)
  /\ down_out' = NoDown
  /\ Quiet
  /\ NoIn
  /\ NoRequest
  /\ UNCHANGED << running, connVars, fan, hubOnly, sock, raced >>

\* variant: _connect without its resubscription
ResubNone(A) == {}

\* the channels _connect subscribes to again: self._all_channels
ResubSet(A) == A

\* _connect, second half: if self._all_channels, one public/subscribe with
\* sorted(self._all_channels); then start() creates the receive task, or
\* _recv_loop goes round
ConnectResub ==
  /\ rpc \in { "start_hb", "re_hb" }
  /\ LET u == SubscribeDeribit(Up0, ConnOpen, ResubSet(all_channels))
     IN  /\ SetUp(u)
         /\ rpc' = IF Raised(u) THEN ConnectRaised(rpc) ELSE "recv"
  /\ down_out' = NoDown
  /\ Quiet
  /\ NoIn
  /\ NoRequest
  /\ UNCHANGED << running, connVars, fan, hubOnly, sock, raced, nevents >>

\* variant: no try/except around send_text, the exception leaves the loop
OnDeliveryErrorRaise(rest) == [left |-> {}, raise |-> TRUE]

\* what the fan-out loop does after send_text raised, rest being the clients
\* not served yet: except Exception: pass
OnDeliveryError(rest) == [left |-> rest, raise |-> FALSE]

\* variant: a client that was sent the frame stays among those to serve
DeliverKeepsLeft(f, d, delivered) ==
  LET rest == f.left \ {d}
  IN  IF delivered
      THEN [fan |-> [f EXCEPT !.delivered = @ \cup {d}],
            rpc |-> "fanout",
            down |-> Down(d, DataMsg(f.frame, f.channel), TRUE)]
      ELSE [fan |-> [f EXCEPT !.left = rest, !.failed = @ \cup {d}],
            rpc |-> IF rest = {} THEN "recv" ELSE "fanout",
            down |-> Down(d, DataMsg(f.frame, f.channel), FALSE)]

\* await client.send_text(raw) for client d of the snapshot, f the fan-out
\* so far, delivered telling whether the socket takes the frame; the
\* position of the task afterwards
Deliver(f, d, delivered) ==
  LET rest == f.left \ {d}
      e == OnDeliveryError(rest)
  IN  IF delivered
      THEN [fan |-> [f EXCEPT !.left = rest, !.delivered = @ \cup {d}],
            rpc |-> IF rest = {} THEN "recv" ELSE "fanout",
            down |-> Down(d, DataMsg(f.frame, f.channel), TRUE)]
      ELSE [fan |-> [f EXCEPT !.left = e.left, !.failed = @ \cup {d}],
            rpc |-> IF e.raise THEN "sleep1"
                    ELSE IF e.left = {} THEN "recv" ELSE "fanout",
            down |-> Down(d, DataMsg(f.frame, f.channel), FALSE)]

\* variant: the frame goes to the subscribers of every channel
SnapshotAll(S, ch) == UNION { S[k] : k \in DOMAIN S }

\* variant: a channel without an entry falls back on the clients of all entries
SnapshotFallback(S, ch) ==
  IF ch \in DOMAIN S THEN S[ch] ELSE UNION { S[k] : k \in DOMAIN S }

\* clients = self._subs.get(channel, set()).copy()
Snapshot(S, ch) == Get(S, ch)

\* a send_text to d that raises: the client is gone
SockAfter(d, delivered) ==
  IF delivered THEN sock ELSE [sock EXCEPT ![d] = "gone"]

\* variant: a heartbeat of any type is skipped without a reply
TestReplyNone(u, sent) == u

\* the reply to a heartbeat test request: one public/test; sent tells
\* whether the connection takes it
TestReply(u, sent) == SendOn(u, sent, "public/test", <<>>, 0)

\* raw = await self._ws.recv() returns frame f; the loop body runs to its
\* next suspension.  The transport may fail between the arrival of a test
\* request and the reply to it: the send raises.
RecvFrame(f) ==
  /\ rpc = "recv"
  /\ ConnOpen
  /\ nevents < MaxEvents
  /\ nevents' = nevents + 1
  /\ Quiet
  /\ frame_in' = f
  /\ NoRequest
  /\ UNCHANGED << running, leaked, hubOnly, raced >>
  /\ IF f.kind = "undecodable"
     THEN /\ rpc' = "sleep1"
          /\ SetUp(Up0)
          /\ down_out' = NoDown
          /\ UNCHANGED << ws, fan, sock >>
     ELSE IF f.kind = "test_request"
     THEN \E sent \in BOOLEAN :
            /\ SetUp(TestReply(Up0, sent))
            /\ ws' = IF sent THEN ws ELSE "dead"
            /\ rpc' = IF sent THEN rpc ELSE "sleep1"
            /\ down_out' = NoDown
            /\ UNCHANGED << fan, sock >>
     ELSE IF f.kind = "subscription" /\ f.channel # <<>>
             /\ Snapshot(subs, f.channel) # {}
     THEN \E d \in Snapshot(subs, f.channel), delivered \in BOOLEAN :
            LET f0 == [frame |-> nevents + 1, channel |-> f.channel,
                       snap |-> Snapshot(subs, f.channel),
                       left |-> Snapshot(subs, f.channel),
                       delivered |-> {}, failed |-> {}]
                r == Deliver(f0, d, delivered)
            IN  /\ delivered => sock[d] = "open"
                /\ fan' = r.fan
                /\ rpc' = r.rpc
                /\ down_out' = r.down
                /\ sock' = SockAfter(d, delivered)
                /\ SetUp(Up0)
                /\ UNCHANGED ws
     ELSE /\ SetUp(Up0)
          /\ down_out' = NoDown
          /\ UNCHANGED << ws, rpc, fan, sock >>

\* the next turn of `for client in clients`
FanStep(d, delivered) ==
  /\ rpc = "fanout"
  /\ d \in fan.left
  /\ delivered => sock[d] = "open"
  /\ LET r == Deliver(fan, d, delivered)
     IN  /\ fan' = r.fan
         /\ rpc' = r.rpc
         /\ down_out' = r.down
  /\ sock' = SockAfter(d, delivered)
  /\ SetUp(Up0)
  /\ Quiet
  /\ NoIn
  /\ NoRequest
  /\ UNCHANGED << running, connVars, hubOnly, raced, nevents >>

\* await self._ws.recv() raises on a connection that is not open
RecvRaise ==
  /\ rpc = "recv"
  /\ ~ConnOpen
  /\ rpc' = "sleep1"
  /\ SetUp(Up0)
  /\ down_out' = NoDown
  /\ Quiet
  /\ NoIn
  /\ NoRequest
  /\ UNCHANGED << running, connVars, fan, hubOnly, sock, raced, nevents >>

\* await asyncio.sleep(1.0) is over: await self._connect() begins
Sleep1Done ==
  /\ rpc = "sleep1"
  /\ rpc' = "re_connect"
  /\ SetUp(Up0)
  /\ down_out' = NoDown
  /\ Quiet
  /\ NoIn
  /\ NoRequest
  /\ UNCHANGED << running, connVars, fan, hubOnly, sock, raced, nevents >>

\* await asyncio.sleep(2.0) is over: the loop goes round
Sleep2Done ==
  /\ rpc = "sleep2"
  /\ rpc' = "recv"
  /\ SetUp(Up0)
  /\ down_out' = NoDown
  /\ Quiet
  /\ NoIn
  /\ NoRequest
  /\ UNCHANGED << running, connVars, fan, hubOnly, sock, raced, nevents >>

\* the transport of the upstream connection fails
UpstreamDrop ==
  /\ ws = "open"
  /\ nevents < MaxEvents
  /\ nevents' = nevents + 1
  /\ ws' = "dead"
  /\ SetUp(Up0)
  /\ down_out' = NoDown
  /\ Quiet
  /\ NoIn
  /\ NoRequest
  /\ UNCHANGED << running, leaked, rpc, fan, hubOnly, sock, raced >>

\* stop(): self._running = False, the receive task is cancelled, self._ws is closed
Stop ==
  /\ Serving
  /\ nevents < MaxEvents
  /\ nevents' = nevents + 1
  /\ running' = FALSE
  /\ rpc' = "cancelled"
  /\ ws' = "closed"
  /\ SetUp(Up0)
  /\ down_out' = NoDown
  /\ Quiet
  /\ NoIn
  /\ NoRequest
  /\ UNCHANGED << leaked, fan, hubOnly, sock, raced >>

\* ---------------------------------------------------------- specification
Next ==
  \/ Start
  \/ ConnectOk
  \/ ConnectFail
  \/ ConnectResub
  \/ \E f \in FrameKinds : RecvFrame(f)
  \/ \E d \in Clients, delivered \in BOOLEAN : FanStep(d, delivered)
  \/ RecvRaise
  \/ Sleep1Done
  \/ Sleep2Done
  \/ UpstreamDrop
  \/ Stop
  \/ \E c \in Clients : SessOpen(c)
  \/ \E c \in Clients, req \in Requests, delivered \in BOOLEAN : SessRecv(c, req, delivered)
  \/ \E c \in Clients : SessAcquire(c)
  \/ \E c \in Clients, delivered \in BOOLEAN : SessReply(c, delivered)
  \/ \E c \in Clients : SessDisconnect(c)

Spec == Init /\ [][Next]_vars

\* The hub in service with both clients subscribed to ticker.A: the state
\* after start() and, for a and then b, accept, a subscribe request naming
\* ticker.A and its acknowledgement.  The moves of the environment are
\* counted from here.
InitSubscribed ==
  /\ running = TRUE
  /\ ws = "open"
  /\ leaked = FALSE
  /\ upsubs = { ChX }
  /\ req_id = 3
  /\ subs = Put(<<>>, ChX, Clients)
  /\ all_channels = { ChX }
  /\ lock = NoClient
  /\ waiters = <<>>
  /\ rpc = "recv"
  /\ fan = NoFan
  /\ sess = [c \in Clients |-> "recv"]
  /\ sock = [c \in Clients |-> "open"]
  /\ cur = [c \in Clients |-> NoReq]
  /\ raced = FALSE
  /\ up_out = <<>>
  /\ down_out = Down("b", OkMsg("subscribe", <<ChX>>), TRUE)
  /\ end_out = NoEnd
  /\ reg_out = NoRegOut
  /\ frame_in = NoFrame
  /\ req_in = NoReqIn
  /\ nevents = 0

\* the runs of Spec and the runs that go on from InitSubscribed
SpecSubscribed == (Init \/ InitSubscribed) /\ [][Next]_vars

\* ------------------------------------------------------------ properties
\* the requests of one step (out) with the given method that name channel X
Naming(out, method, X) ==
  { i \in 1..Len(out) : out[i].method = method /\ X \in Range(out[i].channels) }

\* the step is the second half of _connect
ConnectStep == rpc \in { "start_hb", "re_hb" } /\ rpc' # rpc

\* the list is in strictly ascending order
IsSorted(s) == \A i \in 1..Len(s) : \A j \in 1..Len(s) : i < j => StrLess(s[i], s[j])

\* C1: a step in which channel X becomes live issues exactly one upstream
\* public/subscribe naming X, and while X is live no step other than the
\* resubscription of _connect issues one: the subscribe of a second or later
\* client sends nothing upstream for X.  No step names X in two subscribes.
C1_OneSubscribePerLiveChannel ==
  [][\A X \in Channels :
       LET n == Cardinality(Naming(up_out', "public/subscribe", X))
       IN  /\ (X \notin all_channels /\ X \in all_channels') => n = 1
           /\ (X \in all_channels /\ ~ConnectStep) => n = 0
           /\ n <= 1]_vars

\* C1, its case: b is served a subscribe naming ticker.A, of which a is a
\* subscriber already, and the step sent nothing upstream
C1_Witness ==
  /\ ConnOpen
  /\ reg_out.who = "b" /\ reg_out.op = "subscribe" /\ ChX \in reg_out.joined
  /\ Get(subs, ChX) = { "a", "b" }
  /\ up_out = <<>>

\* C2: when A leaves channel X (by unsubscribe or by the cleanup of its
\* session) while B is a subscriber of X, the step issues no upstream
\* public/unsubscribe naming X, B stays in X's subscriber set and X stays
\* live; and a subscription frame of X received while B is a subscriber of
\* X starts a fan-out whose snapshot holds B, in which B is served or still
\* to be served, and is missed only by a B whose socket is gone.
C2_OtherSubscriberKeepsChannel ==
  [][\A X \in Channels : \A A \in Clients : \A B \in Clients \ {A} :
       /\ (A \in Get(subs, X) /\ B \in Get(subs, X) /\ A \notin Get(subs', X))
            => /\ B \in Get(subs', X)
               /\ X \in all_channels'
               /\ Naming(up_out', "public/unsubscribe", X) = {}
       /\ (B \in Get(subs, X) /\ frame_in'.kind = "subscription"
                              /\ frame_in'.channel = X)
            => /\ fan'.frame = nevents'
               /\ fan'.channel = X
               /\ B \in fan'.snap
               /\ B \in (fan'.left \cup fan'.delivered \cup fan'.failed)
               /\ B \in fan'.failed => sock'[B] = "gone"]_vars

\* C2, its case: a has just left ticker.A, b is still a subscriber of it, and
\* the step sent nothing upstream
C2_Witness ==
  /\ ConnOpen
  /\ reg_out.who = "a" /\ reg_out.op \in { "unsubscribe", "cleanup" }
  /\ ChX \in reg_out.left
  /\ Get(subs, ChX) = { "b" }
  /\ ChX \in upsubs
  /\ up_out = <<>>

\* C3: a step in which a live channel X stops being live (its last
\* subscriber unsubscribes, or the session of its last subscriber is cleaned
\* up) makes exactly one upstream public/unsubscribe call naming X; and a
\* step that makes such a call leaves X not live and without subscriber, X
\* having been live before the step or having become live in it.
C3_UnsubscribeAtLastLeave ==
  [][\A X \in Channels :
       LET un == Naming(up_out', "public/unsubscribe", X)
           su == Naming(up_out', "public/subscribe", X)
       IN  /\ (X \in all_channels /\ X \notin all_channels') => Cardinality(un) = 1
           /\ un # {} => /\ Cardinality(un) = 1
                         /\ X \notin all_channels'
                         /\ Get(subs', X) = {}
                         /\ \/ X \in all_channels
                            \/ \E i \in su : \A j \in un : i < j]_vars

\* C3, its case: the last subscriber of ticker.A has just left it and the
\* step sent the feed one unsubscribe naming it
C3_Witness ==
  /\ reg_out.op \in { "unsubscribe", "cleanup" }
  /\ ChX \in reg_out.left
  /\ ChX \notin all_channels
  /\ Len(up_out) = 1
  /\ up_out[1].method = "public/unsubscribe"
  /\ up_out[1].channels = <<ChX>>
  /\ up_out[1].ok
  /\ \E c \in Clients : sess[c] = "closed"

\* C4 as stated: every reconnect that succeeds sends one public/subscribe
\* whose channel list is the sorted live channel set
C4_ReconnectAlwaysSubscribes ==
  [][(rpc = "re_hb" /\ rpc' = "recv")
       => /\ Len(up_out') = 1
          /\ up_out'[1].method = "public/subscribe"
          /\ up_out'[1].channels = Sorted(all_channels)]_vars

\* C4, amended: a reconnect that succeeds with a non-empty live channel set
\* sends exactly one public/subscribe, which names every live channel once,
\* in ascending order; with an empty live channel set it sends none
C4_ReconnectSubscribesLiveSet ==
  [][(rpc = "re_hb" /\ rpc' = "recv")
       => IF all_channels = {}
          THEN up_out' = <<>>
          ELSE /\ Len(up_out') = 1
               /\ up_out'[1].method = "public/subscribe"
               /\ up_out'[1].ok
               /\ Range(up_out'[1].channels) = all_channels
               /\ Len(up_out'[1].channels) = Cardinality(all_channels)
               /\ IsSorted(up_out'[1].channels)]_vars

\* C4, its case: the reconnect has just sent the feed the two live channels
\* (a request of a session that was sent would leave the session in "reply")
C4_Witness ==
  /\ rpc = "recv"
  /\ all_channels = { ChX, ChY }
  /\ Len(up_out) = 1
  /\ up_out[1].method = "public/subscribe"
  /\ up_out[1].ok
  /\ up_out[1].channels = << ChY, ChX >>
  /\ \A c \in Clients : sess[c] # "reply"

\* the upstream is connected and no client request, no cleanup of a session
\* and no reconnect is in progress
Quiescent ==
  /\ ConnOpen
  /\ rpc \in { "recv", "fanout" }
  /\ lock = NoClient
  /\ waiters = <<>>
  /\ \A c \in Clients : sess[c] \in { "new", "recv", "closed" }

\* C5: at quiescence the channels the feed has subscribed on the current
\* upstream connection are exactly the live channels
C5_QuiescentUpstreamMatchesLive == Quiescent => upsubs = all_channels

\* C5, its case: quiescence after a subscribed ticker.A and left, b
\* subscribed book.B and stays
C5_Witness ==
  /\ Quiescent
  /\ sess["a"] = "closed"
  /\ sess["b"] = "recv"
  /\ reg_out.who = "a" /\ reg_out.left = { ChX }
  /\ all_channels = { ChY }

\* C6: once a reconnect during which the registry changed (between the
\* opening of the new connection and its resubscription) has completed and
\* no session is waiting for the lock, serving a request or cleaning up, the
\* subscriptions of the new connection are exactly the live channels, each
\* with a subscriber.
C6_RacedReconnectConverges ==
  (/\ raced
   /\ ConnOpen
   /\ rpc \in { "recv", "fanout" }
   /\ \A c \in Clients : sess[c] \notin { "wait", "reply", "cleanup_wait" })
    => /\ \A ch \in all_channels : ch \in upsubs /\ Get(subs, ch) # {}
       /\ \A ch \in upsubs : ch \in all_channels

\* C6, its case: quiescence after a reconnect during which a second channel
\* became live
C6_Witness ==
  /\ raced
  /\ Quiescent
  /\ all_channels = { ChX, ChY }

\* C7: a client whose session has ended is in no subscriber set, and no
\* channel is live without a subscriber other than that client
C7_EndedSessionLeavesNothing ==
  \A c \in Clients :
    sess[c] = "closed"
      => /\ \A ch \in DOMAIN subs : c \notin subs[ch]
         /\ \A ch \in all_channels : Get(subs, ch) \ {c} # {}

\* C7, its case: the session of a, subscriber of both channels, has just
\* been cleaned up; book.B has another subscriber
C7_Witness ==
  /\ sess["a"] = "closed"
  /\ reg_out.who = "a" /\ reg_out.op = "cleanup"
  /\ reg_out.left = { ChX, ChY }
  /\ all_channels = { ChY }

\* C8 as stated: no session ends because a send on the upstream connection
\* raised
C8_UpstreamFailureKeepsSession == end_out.cause # "upstream_send"

\* C9: a data frame whose send to a subscriber raised leaves the task in
\* its receive loop (at the next recv or the next client of the snapshot);
\* when the fan-out is over every client of the snapshot has been served,
\* and the send raised only for clients whose socket is gone
C9_FanOutIsolation ==
  /\ (down_out.msg.type = "data" /\ ~down_out.ok) => rpc \in { "recv", "fanout" }
  /\ rpc \notin { "fanout", "cancelled" }
       => fan.left = {} /\ fan.delivered \cup fan.failed = fan.snap
  /\ \A d \in fan.failed : sock[d] = "gone"

\* C9, its case: the fan-out is over, the send to one subscriber raised and
\* the last step delivered the frame to another
C9_Witness ==
  /\ rpc = "recv"
  /\ fan.failed # {}
  /\ down_out.msg.type = "data" /\ down_out.ok
  /\ down_out.msg.frame = fan.frame
  /\ down_out.to \in fan.delivered

\* C10 as stated: while the hub is running, it is connected or a connect
\* attempt is still to come
C10_AlwaysRetrying ==
  running => \/ ConnOpen
             \/ rpc \in { "start_connect", "start_hb", "recv", "fanout",
                          "sleep1", "re_connect", "re_hb", "sleep2" }

\* an entry of `channels` that is a string and passes validation
AcceptedEntry(x) == IsStr(x) /\ _validate_channel(x)

\* the entries of `channels` that are strings and pass validation, in order
Accepted(channels) == SelectSeq(channels, AcceptedEntry)

\* the step runs the registry loop of a subscribe or unsubscribe request of
\* client c, whose handler goes on to its reply
Serves(c) ==
  /\ reg_out'.who = c
  /\ reg_out'.op \in { "subscribe", "unsubscribe" }
  /\ sess'[c] = "reply"

\* C11: the step that serves a subscribe or unsubscribe request changes the
\* subscriber sets and the live set only at the entries of `channels` that
\* are strings passing validation, puts the client into (takes it out of)
\* the subscriber set of each of them, and names only such channels in its
\* upstream requests; the reply to the request is the ok frame with the op
\* and exactly those entries, in the order of the request.
C11_OnlyValidChannelsTakeEffect ==
  [][\A c \in Clients :
       /\ Serves(c)
            => LET V == Range(Accepted(cur'[c].channels))
               IN  /\ reg_out'.op = cur'[c].op
                   /\ \A ch \in (DOMAIN subs \cup DOMAIN subs') \ V :
                        Get(subs', ch) = Get(subs, ch)
                   /\ \A ch \in (all_channels \cup all_channels') \ V :
                        (ch \in all_channels') = (ch \in all_channels)
                   /\ \A ch \in V :
                        (c \in Get(subs', ch)) = (cur'[c].op = "subscribe")
                   /\ \A i \in 1..Len(up_out') : Range(up_out'[i].channels) \subseteq V
       /\ (sess[c] = "reply" /\ sess'[c] # "reply"
             /\ cur[c].op \in { "subscribe", "unsubscribe" })
            => /\ down_out'.to = c
               /\ down_out'.msg.type = "ok"
               /\ down_out'.msg.op = cur[c].op
               /\ down_out'.msg.channels = Accepted(cur[c].channels)]_vars

\* C11, its case: the subscribe of a for ["book !", "book.B"] has been
\* acknowledged with ["book.B"], and only book.B is in the registry
C11_Witness ==
  /\ down_out.to = "a" /\ down_out.ok
  /\ down_out.msg.type = "ok" /\ down_out.msg.op = "subscribe"
  /\ down_out.msg.channels = << ChY >>
  /\ DOMAIN subs = { ChY }
  /\ subs[ChY] = { "a" }
  /\ upsubs = { ChY }

\* C12: the step that receives a request (a JSON object) without any entry
\* of `channels` that is a string passing validation sends the client the
\* error frame "no valid channels" and nothing else; when the client takes
\* the frame, the registry, the lock and the upstream side are as before, no
\* upstream call is made, no handler ends and the client's handler is back
\* at receive_text with its socket open.
C12_NoValidChannelIsRejected ==
  [][\A c \in Clients :
       (/\ req_in'.who = c
        /\ req_in'.req.kind = "object"
        /\ Accepted(req_in'.req.channels) = <<>>)
         => /\ down_out'.to = c
            /\ down_out'.msg.type = "error"
            /\ down_out'.msg.error = "no valid channels"
            /\ down_out'.ok
                 => /\ reg_out'.op = "none"
                    /\ subs' = subs
                    /\ all_channels' = all_channels
                    /\ upsubs' = upsubs
                    /\ lock' = lock /\ waiters' = waiters
                    /\ up_out' = <<>>
                    /\ end_out' = NoEnd
                    /\ sess'[c] = "recv"
                    /\ sock'[c] = "open"]_vars

\* C12, its case: a, subscriber of ticker.A, has just been sent the error
\* for a request with an invalid name and a non-string, and goes on
C12_Witness ==
  /\ req_in.who = "a"
  /\ req_in.req.channels = << ChBad, JsonNumber >>
  /\ down_out.to = "a" /\ down_out.ok
  /\ down_out.msg.error = "no valid channels"
  /\ sess["a"] = "recv"
  /\ Get(subs, ChX) = { "a" }

\* a request (a JSON object) whose op is neither "subscribe" nor "unsubscribe"
UnknownOp(req) ==
  req.kind = "object" /\ req.op \notin { "subscribe", "unsubscribe" }

\* C13 as stated: whatever the step that receives a request with another op
\* sends the client, it is the unknown-operation error
C13_UnknownOpAlwaysAnswered ==
  [][\A c \in Clients :
       (req_in'.who = c /\ UnknownOp(req_in'.req) /\ down_out'.to = c)
         => down_out'.msg.error = "unknown op"]_vars

\* C13, amended: a request with another op and at least one valid channel is
\* taken up by the handler (served at once or queued for the lock, nothing
\* sent yet); the step that serves it changes neither the registry nor the
\* upstream side and makes no upstream call; its reply is the error frame
\* "unknown op", and when the client takes it nothing has changed and the
\* handler is back at receive_text.  (Without a valid channel the request is
\* answered with "no valid channels" instead.)
C13_UnknownOpWithValidChannel ==
  [][\A c \in Clients :
       /\ (req_in'.who = c /\ UnknownOp(req_in'.req)
             /\ Accepted(req_in'.req.channels) # <<>>)
            => /\ sess'[c] \in { "reply", "wait" }
               /\ cur'[c] = req_in'.req
               /\ down_out' = NoDown
       /\ (sess[c] # "reply" /\ sess'[c] = "reply" /\ UnknownOp(cur'[c]))
            => /\ subs' = subs
               /\ all_channels' = all_channels
               /\ upsubs' = upsubs
               /\ up_out' = <<>>
               /\ reg_out'.op = "none"
       /\ (sess[c] = "reply" /\ sess'[c] # "reply" /\ UnknownOp(cur[c]))
            => /\ down_out'.to = c
               /\ down_out'.msg.type = "error"
               /\ down_out'.msg.error = "unknown op"
               /\ down_out'.ok
                    => /\ subs' = subs
                       /\ all_channels' = all_channels
                       /\ upsubs' = upsubs
                       /\ up_out' = <<>>
                       /\ end_out' = NoEnd
                       /\ sess'[c] = "recv"
                       /\ sock'[c] = "open"]_vars

\* C13, its case: b, while a is a subscriber of ticker.A, has just been sent
\* the unknown-operation error and goes on
C13_Witness ==
  /\ down_out.to = "b" /\ down_out.ok
  /\ down_out.msg.error = "unknown op"
  /\ sess["b"] = "recv"
  /\ DOMAIN subs = { ChX }
  /\ subs[ChX] = { "a" }
  /\ upsubs = { ChX }

\* every character of the name is in [A-Za-z0-9_.-]
ClassOnly(ch) == \A i \in 1..Len(ch) : ch[i] \in ChannelChars

\* C14 as stated: a channel name in the registry, in the live set or in an
\* upstream request of the last step is non-empty, has all its characters
\* (the last one too) in [A-Za-z0-9_.-] and starts with an allowed prefix
C14_OnlyClassCharactersAccepted ==
  \A ch \in DOMAIN subs \cup all_channels
            \cup UNION { Range(up_out[i].channels) : i \in 1..Len(up_out) } :
    /\ ch # <<>>
    /\ ClassOnly(ch)
    /\ \E p \in ALLOWED_PREFIXES : StartsWith(ch, p)

\* C15: a data frame sent to a client is the subscription frame the hub
\* received (its number and channel) and goes to a client of the snapshot
\* of the fan-out; a fan-out starts only in the step that receives a
\* subscription frame, for the channel of that frame, and its snapshot is
\* the subscriber set of that channel at that step; the snapshot of a
\* fan-out in progress does not change, whatever the registry does.
C15_DataOnlyToSnapshot ==
  [][/\ down_out'.msg.type = "data"
          => /\ down_out'.to \in fan'.snap
             /\ down_out'.msg.frame = fan'.frame
             /\ down_out'.msg.channels = << fan'.channel >>
             /\ rpc \in { "recv", "fanout" }
     /\ fan'.frame # fan.frame
          => /\ frame_in'.kind = "subscription"
             /\ fan'.frame = nevents'
             /\ fan'.channel = frame_in'.channel
             /\ fan'.snap = Get(subs, frame_in'.channel)
             /\ down_out'.msg.type = "data"
     /\ fan'.frame = fan.frame
          => /\ fan'.snap = fan.snap
             /\ fan'.channel = fan.channel]_vars

\* C15, its case: a frame of book.B has been delivered to its subscriber b
\* and to nobody else, a being a subscriber of ticker.A only
C15_Witness ==
  /\ rpc = "recv"
  /\ down_out.to = "b" /\ down_out.ok
  /\ down_out.msg.type = "data"
  /\ down_out.msg.channels = << ChY >>
  /\ fan.snap = { "b" } /\ fan.delivered = { "b" }
  /\ Get(subs, ChX) = { "a" }
  /\ sock["a"] = "open"

\* C16: the step that receives a heartbeat with type test_request makes
\* exactly one upstream call, public/test, before the task reads again (or
\* leaves the loop body because the call raised); the step that receives a
\* heartbeat of another type makes no upstream call and the task reads
\* again; neither sends a client anything, starts a fan-out or changes the
\* registry; and public/test is sent in no other step.
C16_HeartbeatHandling ==
  [][/\ frame_in'.kind = "test_request"
          => /\ Len(up_out') = 1
             /\ up_out'[1].method = "public/test"
             /\ up_out'[1].channels = <<>>
             /\ rpc' = IF up_out'[1].ok THEN "recv" ELSE "sleep1"
     /\ frame_in'.kind = "heartbeat"
          => /\ up_out' = <<>>
             /\ rpc' = "recv"
     /\ frame_in'.kind \in { "test_request", "heartbeat" }
          => /\ down_out' = NoDown
             /\ fan' = fan
             /\ subs' = subs
             /\ all_channels' = all_channels
     /\ \A i \in 1..Len(up_out') :
          up_out'[i].method = "public/test" => frame_in'.kind = "test_request"]_vars

\* C16, its case: a test request has just been answered with one
\* public/test while a is a subscriber of ticker.A and was sent nothing
C16_Witness ==
  /\ frame_in.kind = "test_request"
  /\ rpc = "recv"
  /\ Len(up_out) = 1
  /\ up_out[1].method = "public/test" /\ up_out[1].ok
  /\ down_out = NoDown
  /\ Get(subs, ChX) = { "a" }

\* C17 as stated: no handler holds the registry lock while it awaits a
\* network operation ("reply" is the handler awaiting send_text of its
\* acknowledgement or error frame inside `async with self._lock`)
C17_LockNotHeldAcrossIO ==
  \A c \in Clients : sess[c] = "reply" => lock # c

\* C18 as stated: every send on the upstream connection is made by the
\* receive/reconnect task, none by a step of a client's handler
C18_OnlyUpstreamTaskSends ==
  up_out # <<>> => reg_out.who = NoClient

\* C19 as stated: when an upstream send of the last step raised, or the
\* last frame received was undecodable, the Connected state is over and the
\* receive/reconnect task is in the short delay of the retry cycle
C19_ErrorStartsRetryCycle ==
  (\/ \E i \in 1..Len(up_out) : ~up_out[i].ok
   \/ frame_in.kind = "undecodable")
    => /\ ~ConnOpen
       /\ rpc = "sleep1"

\* C20: the live channel set is the set of keys of the subscriber map, and
\* no stored subscriber set is empty
C20_LiveSetIsKeySet ==
  /\ all_channels = DOMAIN subs
  /\ \A ch \in DOMAIN subs : subs[ch] # {}

\* C20, its case: the only subscriber of ticker.A has just left it, book.B
\* keeps its subscriber: one entry deleted, one kept
C20_Witness ==
  /\ reg_out.op \in { "unsubscribe", "cleanup" }
  /\ reg_out.left = { ChX }
  /\ DOMAIN subs = { ChY }
  /\ all_channels = { ChY }

\* the feed's subscriptions after the first n requests of out that were sent,
\* f being its subscriptions before them
RECURSIVE FeedUpTo(_, _, _)
FeedUpTo(f, out, n) ==
  IF n = 0 THEN f
  ELSE LET g == FeedUpTo(f, out, n - 1)
       IN  IF out[n].ok THEN FeedApply(g, out[n].method, out[n].channels) ELSE g

\* every request of out that was sent follows, for each channel it names, a
\* request of the other kind: a subscribe names only channels the feed has
\* not subscribed on the connection, an unsubscribe only channels it has
Alternates(f, out) ==
  \A i \in 1..Len(out) :
    out[i].ok =>
      \A X \in Range(out[i].channels) :
        /\ out[i].method = "public/subscribe" => X \notin FeedUpTo(f, out, i - 1)
        /\ out[i].method = "public/unsubscribe" => X \in FeedUpTo(f, out, i - 1)

\* the step opens a connection, on which the feed has no subscription yet
OpensConnection ==
  rpc \in { "start_connect", "re_connect" } /\ rpc' \in { "start_hb", "re_hb" }

\* a request of a session that was sent and names X is sent in the step of
\* the transition of X it reports
InTransitionOrder ==
  \A X \in Channels :
    ~ConnectStep =>
      /\ (\E i \in Naming(up_out', "public/subscribe", X) : up_out'[i].ok)
           => X \notin all_channels /\ X \in all_channels'
      /\ (\E i \in Naming(up_out', "public/unsubscribe", X) : up_out'[i].ok)
           => X \in all_channels /\ X \notin all_channels'

\* C21 as stated: on every upstream connection the requests sent that name a
\* channel alternate subscribe, unsubscribe, subscribe, ..., starting with
\* subscribe, and each is sent in the step of the live / not-live transition
\* it reports
C21_RequestsAlternateOnEveryConnection ==
  [][/\ Alternates(IF OpensConnection THEN {} ELSE upsubs, up_out')
     /\ InTransitionOrder]_vars

\* C21, amended: the requests sent that name a channel alternate on the
\* connection they are sent on, starting with subscribe, and each request of
\* a session is sent in the step of the transition it reports; but not the
\* requests sent while _connect is between its set_heartbeat and its
\* resubscription once a session has changed the live set in that window
C21_RequestsAlternateOutsideRacedConnect ==
  [][/\ (rpc # "re_hb" \/ ~raced')
          => Alternates(IF OpensConnection THEN {} ELSE upsubs, up_out')
     /\ InTransitionOrder]_vars

\* C21, its case: a was a subscriber of ticker.A (a frame of it was
\* delivered to a) and has left with its session; b has just subscribed to
\* it and the feed was sent a subscribe again
C21_Witness ==
  /\ fan.channel = ChX /\ "a" \in fan.delivered
  /\ sess["a"] = "closed"
  /\ reg_out.who = "b" /\ reg_out.op = "subscribe" /\ ChX \in reg_out.joined
  /\ Len(up_out) = 1
  /\ up_out[1].method = "public/subscribe" /\ up_out[1].ok
  /\ up_out[1].channels = <<ChX>>
  /\ ~leaked /\ ~raced

\* C22: the step that runs the cleanup of the session of c leaves the
\* membership of every other client in every channel as it was and keeps
\* live every channel that has another subscriber; when the step runs the
\* cleanup alone (the handler did not run a registry loop in the same step),
\* it makes no upstream call if c was the last subscriber of no channel, and
\* otherwise one call, a public/unsubscribe listing exactly the channels c
\* was the last subscriber of, each once
C22_CleanupRemovesOnlyItsClient ==
  [][\A c \in Clients :
       (reg_out'.who = c /\ reg_out'.op = "cleanup")
         => LET last == { ch \in DOMAIN subs : subs[ch] = {c} }
            IN  /\ \A d \in Clients \ {c} : \A ch \in Channels :
                     d \in Get(subs, ch) <=> d \in Get(subs', ch)
                /\ \A ch \in all_channels :
                     Get(subs, ch) \ {c} # {} => ch \in all_channels'
                /\ \A ch \in Channels : c \notin Get(subs', ch)
                /\ end_out'.cause # "upstream_send"
                     => IF last = {} THEN up_out' = <<>>
                        ELSE /\ Len(up_out') = 1
                             /\ up_out'[1].method = "public/unsubscribe"
                             /\ Range(up_out'[1].channels) = last
                             /\ Len(up_out'[1].channels) = Cardinality(last)]_vars

\* C22, its case: the session of a, subscriber of both channels, has ended;
\* b stays a subscriber of book.B, which stays live, and the one request
\* sent to the feed is the unsubscribe of ticker.A
C22_Witness ==
  /\ reg_out.who = "a" /\ reg_out.op = "cleanup"
  /\ reg_out.left = { ChX, ChY }
  /\ end_out.cause # "upstream_send"
  /\ Get(subs, ChY) = { "b" }
  /\ all_channels = { ChY }
  /\ Len(up_out) = 1
  /\ up_out[1].method = "public/unsubscribe" /\ up_out[1].ok
  /\ up_out[1].channels = <<ChX>>

\* the step runs the branch of a subscribe or unsubscribe request of c that
\* has a valid channel: on receipt when the lock is free, else when the lock
\* is acquired
HandlesValid(c) ==
  \/ /\ req_in'.who = c
     /\ req_in'.req.op \in { "subscribe", "unsubscribe" }
     /\ ValidOf(req_in'.req.channels) # <<>>
     /\ sess'[c] # "wait"
  \/ /\ sess[c] = "wait" /\ sess'[c] # "wait"
     /\ cur[c].op \in { "subscribe", "unsubscribe" }

\* C23 as stated: the step that runs the branch of a subscribe or
\* unsubscribe request with a valid channel issues the upstream request and
\* sends no frame to the client, whose handler goes on to the reply; the
\* reply is the ok frame, sent in a later step that issues no upstream
\* request and changes no registry entry
C23_RequestThenAcknowledgement ==
  [][\A c \in Clients :
       /\ HandlesValid(c) => sess'[c] = "reply" /\ down_out' = NoDown
       /\ (sess[c] = "reply" /\ sess'[c] # "reply" /\ cur[c].op \in { "subscribe", "unsubscribe" })
            => /\ down_out'.to = c
               /\ down_out'.msg = OkMsg(cur[c].op, ValidOf(cur[c].channels))
               /\ down_out'.ok => up_out' = <<>> /\ subs' = subs
                                   /\ all_channels' = all_channels]_vars

\* the step is the second half of a _connect that shutdown does not cancel
Resubscribes ==
  rpc \in { "start_hb", "re_hb" } /\ rpc' \in { "recv", "start_failed", "sleep2" }

\* C24: the step in which _connect opens a connection sends on it one
\* request, public/set_heartbeat with interval 30, so that nothing is sent
\* on a connection before it, and no other step sends a set_heartbeat; the
\* second half of _connect, which follows, sends one public/subscribe naming
\* the live channels when there is one, and nothing when there is none
C24_ConnectSendsHeartbeatFirst ==
  [][/\ (ws # "open" /\ ws' = "open") => OpensConnection
     /\ OpensConnection
          => /\ Len(up_out') = 1
             /\ up_out'[1].method = "public/set_heartbeat"
             /\ up_out'[1].interval = 30
             /\ up_out'[1].ok
             /\ ws' = "open"
     /\ (\E i \in 1..Len(up_out') : up_out'[i].method = "public/set_heartbeat")
          => OpensConnection
     /\ Resubscribes
          => IF all_channels = {} THEN up_out' = <<>>
             ELSE /\ Len(up_out') = 1
                  /\ up_out'[1].method = "public/subscribe"
                  /\ Range(up_out'[1].channels) = all_channels]_vars

\* C24, its case: a reconnect has opened a connection while ticker.A is
\* live; the step sent set_heartbeat with interval 30 and the feed has no
\* subscription on the connection yet
C24_Witness ==
  /\ rpc = "re_hb"
  /\ ConnOpen
  /\ all_channels = { ChX }
  /\ upsubs = {}
  /\ Len(up_out) = 1
  /\ up_out[1].method = "public/set_heartbeat"
  /\ up_out[1].interval = 30

\* C25: every public/subscribe and public/unsubscribe call names at least
\* one channel and lists its channels in strictly ascending order, hence
\* each once
C25_ChannelListsSortedNonEmpty ==
  \A i \in 1..Len(up_out) :
    up_out[i].method \in { "public/subscribe", "public/unsubscribe" }
      => /\ up_out[i].channels # <<>>
         /\ IsSorted(up_out[i].channels)

\* C25, its case: a request that names ticker.A twice and book.B once has
\* made both live; the feed was sent book.B, ticker.A
C25_Witness ==
  /\ \E c \in Clients :
       /\ sess[c] = "reply"
       /\ cur[c].op = "subscribe"
       /\ cur[c].channels = << ChX, ChY, ChX >>
       /\ reg_out.who = c /\ reg_out.joined = { ChX, ChY }
  /\ Len(up_out) = 1
  /\ up_out[1].method = "public/subscribe" /\ up_out[1].ok
  /\ up_out[1].channels = << ChY, ChX >>

\* the frame is a JSON object that is no heartbeat and no subscription
\* notification, or a subscription notification without a channel or of a
\* channel that has no subscriber
Ignorable(f) ==
  \/ f.kind = "other"
  \/ f.kind = "subscription" /\ (f.channel = <<>> \/ Get(subs, f.channel) = {})

\* C26: the step that receives such a frame sends nothing to any client and
\* nothing upstream, changes neither the registry nor the connection, starts
\* no fan-out and no reconnect, and leaves the task at its next recv
C26_IgnoredFramesChangeNothing ==
  [][Ignorable(frame_in')
       => /\ down_out' = NoDown
          /\ up_out' = <<>>
          /\ req_id' = req_id
          /\ subs' = subs /\ all_channels' = all_channels
          /\ ws' = ws /\ leaked' = leaked /\ upsubs' = upsubs
          /\ fan' = fan
          /\ sess' = sess /\ sock' = sock
          /\ rpc = "recv" /\ rpc' = "recv"]_vars

\* C26, its case: a notification of book.B has been received while ticker.A
\* is the only live channel
C26_Witness ==
  /\ frame_in.kind = "subscription" /\ frame_in.channel = ChY
  /\ all_channels = { ChX }
  /\ Get(subs, ChX) # {}
  /\ rpc = "recv"
  /\ down_out = NoDown

\* c is in line for the lock
Waiting(c) == \E i \in 1..Len(waiters) : waiters[i] = c

\* C27: a client frame is received only by a handler that serves no request:
\* the request before it has had its registry effects, its upstream request
\* and its reply.  The request a handler serves stays the same until its
\* reply or the end of the handler, and the registry loop and the reply of
\* a step are those of the request received last.
C27_RequestsInArrivalOrder ==
  [][\A c \in Clients :
       /\ req_in'.who = c
            => /\ cur[c] = NoReq /\ sess[c] = "recv"
               /\ lock # c /\ ~Waiting(c)
               /\ cur'[c] \in { req_in'.req, NoReq }
               /\ cur'[c] = NoReq => sess'[c] \in { "recv", "cleanup_wait", "closed" }
       /\ cur[c] # NoReq
            => /\ sess[c] \in { "wait", "reply" }
               /\ cur'[c] \in { cur[c], NoReq }
               /\ cur'[c] = NoReq
                    => \/ down_out'.to = c /\ down_out'.msg = ReplyTo(cur[c])
                       \/ end_out'.who = c
       /\ (reg_out'.who = c /\ reg_out'.op \in { "subscribe", "unsubscribe" })
            => \/ req_in'.who = c /\ reg_out'.op = req_in'.req.op
               \/ sess[c] = "wait" /\ reg_out'.op = cur[c].op
       /\ (down_out'.to = c /\ down_out'.msg.type \in { "ok", "error" })
            => \/ req_in'.who = c /\ ValidOf(req_in'.req.channels) = <<>>
               \/ sess[c] = "reply" /\ down_out'.msg = ReplyTo(cur[c])]_vars

\* C27, its case: a, whose subscribe to ticker.A was served and answered,
\* has sent an unsubscribe for it, which has had its registry effect and its
\* upstream request and waits for its reply
C27_Witness ==
  /\ req_in.who = "a"
  /\ req_in.req.op = "unsubscribe"
  /\ cur["a"] = req_in.req
  /\ sess["a"] = "reply"
  /\ reg_out.who = "a" /\ reg_out.left = { ChX }
  /\ Len(up_out) = 1 /\ up_out[1].method = "public/unsubscribe"
  /\ up_out[1].channels = <<ChX>>

\* stop() has run
Stopped == rpc = "cancelled"

\* C28 as stated: once stop() has run, the receive task reads no frame,
\* delivers none, sends nothing and connects no more, no upstream connection
\* is open, and no step ends a session because of the hub: a session ends
\* only when its client is gone
C28_StopLeavesSessionsOpen ==
  [][Stopped
       => /\ rpc' = "cancelled" /\ ~running'
          /\ frame_in' = NoFrame
          /\ fan' = fan
          /\ down_out'.msg.type # "data"
          /\ \A i \in 1..Len(up_out') : ~up_out'[i].ok
          /\ ws' = "closed" /\ ~leaked'
          /\ end_out'.cause # "upstream_send"]_vars

\* C29: the ids of the requests of a step are greater than self._req_id
\* before the step, which no id issued before exceeds, they increase in
\* call order, and self._req_id after the step is the greatest of them; so
\* ids increase strictly in issue order, whoever issues them, whether the
\* send succeeds or raises and whichever connection it is made on
C29_RequestIdsIncrease ==
  [][/\ req_id' >= req_id
     /\ \A i \in 1..Len(up_out') :
          /\ up_out'[i].id > req_id
          /\ up_out'[i].id <= req_id'
          /\ \A j \in 1..Len(up_out') : i < j => up_out'[i].id < up_out'[j].id
     /\ up_out' = <<>> => req_id' = req_id]_vars

\* C29, its case: a session has just issued the request with id 5 on the
\* connection a reconnect has opened, after the set_heartbeat of both
\* connects and one more request
C29_Witness ==
  /\ Len(up_out) = 1
  /\ up_out[1].id = 5
  /\ req_id = 5
  /\ up_out[1].method \in { "public/subscribe", "public/unsubscribe" }
  /\ reg_out.who \in Clients
  /\ rpc = "re_hb"
  /\ ws = "open" /\ ~leaked

\* C30 as stated: at most one upstream connection is open; the connection
\* self._ws refers to is not open together with one it referred to before
C30_AtMostOneConnectionOpen == ~(ConnOpen /\ leaked)

\* the channel of the data frame the step delivered
DataChannel(m) == m.channels[1]

\* C31 as stated: no data frame of channel X is delivered to a client that
\* has left X by an unsubscribe whose acknowledgement it was sent (it is no
\* subscriber of X and its handler is back at receive_text, or in line for
\* the lock with a later request)
C31_NoDataAfterUnsubscribeAck ==
  [][(down_out'.msg.type = "data" /\ down_out'.ok)
       => ~(/\ down_out'.to \notin Get(subs, DataChannel(down_out'.msg))
            /\ sess[down_out'.to] \in { "recv", "wait" })]_vars

\* C31, amended: the step that serves an unsubscribe takes the client out
\* of the subscriber set of every valid channel it names, and only a
\* subscribe of the client puts it back; a fan-out takes as its snapshot the
\* subscribers of the channel at the receipt of the frame and keeps it; a
\* data frame goes to a client of the snapshot, and to a client that is no
\* subscriber of the channel any more only in a later turn of a fan-out that
\* was in progress
C31_NoDataFromLaterFanOut ==
  [][/\ \A c \in Clients :
          /\ (sess[c] # "reply" /\ sess'[c] = "reply" /\ cur'[c].op = "unsubscribe")
               => \A X \in Range(ValidOf(cur'[c].channels)) : c \notin Get(subs', X)
          /\ \A X \in Channels :
               (c \notin Get(subs, X) /\ c \in Get(subs', X))
                 => reg_out'.who = c /\ reg_out'.op = "subscribe"
     /\ fan' # fan
          => IF rpc = "fanout"
             THEN /\ fan'.snap = fan.snap /\ fan'.frame = fan.frame
                  /\ fan'.channel = fan.channel
             ELSE /\ frame_in'.kind = "subscription"
                  /\ fan'.channel = frame_in'.channel
                  /\ fan'.snap = Get(subs, frame_in'.channel)
     /\ down_out'.msg.type = "data"
          => /\ down_out'.to \in fan'.snap
             /\ DataChannel(down_out'.msg) = fan'.channel
             /\ down_out'.msg.frame = fan'.frame
             /\ \/ down_out'.to \in Get(subs, fan'.channel)
                \/ rpc = "fanout"]_vars

\* C31, its case: b has unsubscribed from ticker.A and has its
\* acknowledgement while a fan-out of ticker.A, begun before, was in
\* progress; the fan-out has just delivered its frame to b
C31_Witness ==
  /\ down_out.msg.type = "data" /\ down_out.ok /\ down_out.to = "b"
  /\ DataChannel(down_out.msg) = ChX
  /\ "b" \in fan.snap /\ "b" \in fan.delivered
  /\ "b" \notin Get(subs, ChX)
  /\ sess["b"] = "recv"
  /\ sock["b"] = "open"

\* C32: a frame is read only when the fan-out of the frame before it is
\* over, and frames are numbered in the order of receipt; the data frame of
\* a step is the frame of the fan-out in progress, goes to a client the
\* fan-out has not served yet and leaves it served.  So a client gets each
\* frame at most once, and its frames in the order of receipt.
C32_AtMostOncePerClientFifo ==
  [][/\ fan'.frame >= fan.frame
     /\ fan'.frame # fan.frame
          => /\ fan.left = {} /\ rpc = "recv"
             /\ fan'.frame = nevents' /\ nevents' > nevents
     /\ fan'.left \cap (fan'.delivered \cup fan'.failed) = {}
     /\ fan'.frame = fan.frame
          => fan.delivered \subseteq fan'.delivered /\ fan'.left \subseteq fan.left
     /\ down_out'.msg.type = "data"
          => LET d == down_out'.to
             IN  /\ down_out'.msg.frame = fan'.frame
                 /\ fan'.frame = fan.frame => d \in fan.left
                 /\ d \notin fan'.left
                 /\ down_out'.ok <=> d \in fan'.delivered]_vars

\* C32, its case: the second frame received has been delivered to both
\* subscribers of ticker.A, to each in a step of its own, the last of them
\* just now
C32_Witness ==
  /\ fan.frame >= 2
  /\ fan.channel = ChX
  /\ fan.delivered = { "a", "b" }
  /\ fan.left = {}
  /\ down_out.msg.type = "data" /\ down_out.ok
  /\ down_out.msg.frame = fan.frame

\* C33 as stated: the request or the cleanup of a session never waits for a
\* send to another client to complete: no session is in line for the lock
\* while the holder of the lock awaits the send_text of its reply
C33_PendingReplyBlocksNobody ==
  \A d \in Clients : (lock = d /\ sess[d] = "reply") => waiters = <<>>

\* C34 as stated: the receive loop never waits for the send of a data frame
\* to one subscriber to complete: it is not suspended in a send_text to a
\* client it has served while clients of the snapshot are still to be served
C34_PendingDeliveryBlocksNothing ==
  ~(rpc = "fanout" /\ fan.delivered # {} /\ fan.left # {})

\* the request whose branch the step runs for c
Served(c) == IF req_in'.who = c THEN req_in'.req ELSE cur[c]

\* C35: the step that runs the branch of a subscribe request of c naming
\* only valid channels c is a subscriber of already leaves the registry, the
\* live set and the feed as they are and makes no upstream call, and the
\* handler goes on to its reply, which is the ok frame listing the valid
\* channels of the request
C35_SubscribeIdempotent ==
  [][\A c \in Clients :
       /\ (/\ HandlesValid(c)
           /\ Served(c).op = "subscribe"
           /\ \A X \in Range(ValidOf(Served(c).channels)) : c \in Get(subs, X))
            => /\ subs' = subs /\ all_channels' = all_channels
               /\ up_out' = <<>> /\ req_id' = req_id /\ upsubs' = upsubs
               /\ sess'[c] = "reply" /\ cur'[c] = Served(c)
       /\ (sess[c] = "reply" /\ sess'[c] # "reply" /\ cur[c].op = "subscribe")
            => /\ down_out'.to = c
               /\ down_out'.msg = OkMsg("subscribe", ValidOf(cur[c].channels))]_vars

\* C35, its case: a, a subscriber of ticker.A like b, has sent a subscribe
\* naming ticker.A again; its branch has run and has changed and sent nothing
C35_Witness ==
  /\ req_in.who = "a"
  /\ req_in.req.op = "subscribe" /\ req_in.req.channels = <<ChX>>
  /\ sess["a"] = "reply"
  /\ reg_out.who = "a" /\ reg_out.op = "subscribe" /\ reg_out.joined = {}
  /\ Get(subs, ChX) = { "a", "b" }
  /\ up_out = <<>>

\* C36: the step that runs the branch of an unsubscribe request of c leaves
\* every valid channel of the request that c is no subscriber of as it is
\* (its subscriber set, whether it is live) and names it in no upstream
\* call; when c is a subscriber of none of them the step changes nothing in
\* the registry, the live set and the feed, makes no upstream call, and the
\* handler goes on to its reply, which is the ok frame of the request
C36_UnsubscribeOfNonMember ==
  [][\A c \in Clients :
       /\ (HandlesValid(c) /\ Served(c).op = "unsubscribe")
            => /\ \A X \in Range(ValidOf(Served(c).channels)) :
                    c \notin Get(subs, X)
                      => /\ Get(subs', X) = Get(subs, X)
                         /\ X \in DOMAIN subs' <=> X \in DOMAIN subs
                         /\ X \in all_channels' <=> X \in all_channels
                         /\ \A i \in 1..Len(up_out') :
                              X \notin Range(up_out'[i].channels)
               /\ (\A X \in Range(ValidOf(Served(c).channels)) : c \notin Get(subs, X))
                    => /\ subs' = subs /\ all_channels' = all_channels
                       /\ up_out' = <<>> /\ req_id' = req_id /\ upsubs' = upsubs
                       /\ sess'[c] = "reply" /\ cur'[c] = Served(c)
       /\ (sess[c] = "reply" /\ sess'[c] # "reply" /\ cur[c].op = "unsubscribe")
            => /\ down_out'.to = c
               /\ down_out'.msg = OkMsg("unsubscribe", ValidOf(cur[c].channels))]_vars

\* C36, its case: a, a subscriber of nothing, has sent an unsubscribe naming
\* ticker.A, which b holds, and book.B, which has no entry; its branch has
\* run and has changed and sent nothing
C36_Witness ==
  /\ req_in.who = "a"
  /\ req_in.req.op = "unsubscribe" /\ req_in.req.channels = << ChX, ChY, ChX >>
  /\ sess["a"] = "reply"
  /\ reg_out.who = "a" /\ reg_out.op = "unsubscribe" /\ reg_out.left = {}
  /\ DOMAIN subs = { ChX } /\ Get(subs, ChX) = { "b" }
  /\ all_channels = { ChX }
  /\ up_out = <<>>

\* the registry, the live set and the feed after client c, in the current
\* state and with the upstream connected, has had a subscribe and then an
\* unsubscribe served that both name the channels valid: the two registry
\* loops and the two upstream requests of the branches, in the order of the
\* code
RoundTrip(c, valid) ==
  LET r1 == SubscribeLoop(Reg(subs, all_channels, {}), c, valid)
      u1 == SubscribeDeribit(Up0, TRUE, r1.changed)
      r2 == UnsubscribeLoop(Reg(r1.subs, r1.all, {}), c, valid)
      u2 == UnsubscribeDeribit(u1, TRUE, r2.changed)
  IN  [subs |-> r2.subs, all |-> r2.all, upsubs |-> u2.upsubs,
       added |-> r1.changed, removed |-> r2.changed]

\* the lists of valid channels the round trip is tried with: those of the
\* `channels` members of the requests, and two more
RoundTripLists ==
  { ValidOf(L) : L \in ChannelLists \cup { <<ChNl>>, <<ChY, ChNl>> } }

\* C37: in every state with the upstream connected, for every client c and
\* every list of valid channels of which c is subscribed to none,
\* subscribe and then unsubscribe by c give back the subscriber map,
\* the live set and the feed's subscriptions of the state, whatever the
\* other clients hold; the channels unsubscribed upstream are those
\* subscribed upstream
C37_SubscribeUnsubscribeRoundTrip ==
  ConnOpen =>
    \A c \in Clients : \A valid \in RoundTripLists :
      LET t == RoundTrip(c, valid)
      IN  (\A X \in Range(valid) : c \notin Get(subs, X))
            => /\ t.subs = subs
               /\ t.all = all_channels
               /\ t.upsubs = upsubs
               /\ t.removed = t.added

\* C37, its case: b holds book.B; a, a subscriber of nothing, has subscribed
\* to ticker.A and book.B and has now unsubscribed from both: the registry
\* and the feed hold book.B for b alone, as before
C37_Witness ==
  /\ ConnOpen
  /\ req_in.who = "a"
  /\ req_in.req.op = "unsubscribe" /\ req_in.req.channels = << ChX, ChY, ChX >>
  /\ reg_out.who = "a" /\ reg_out.left = { ChX, ChY }
  /\ DOMAIN subs = { ChY } /\ Get(subs, ChY) = { "b" }
  /\ all_channels = { ChY }
  /\ upsubs = { ChY }
  /\ Len(up_out) = 1 /\ up_out[1].method = "public/unsubscribe"
  /\ up_out[1].channels = <<ChX>> /\ up_out[1].ok

====
